---- MODULE Spec2Model ----
(***************************************************************************)
(* A model of python_game.py: the Snake class, generate_food, game_loop,   *)
(* game_over_screen and main.                                              *)
(*                                                                         *)
(* Three specifications share the Snake state (body, direction, grow):     *)
(*   Spec      - the whole program: main's loop, a session of game_loop,   *)
(*               the game-over prompt, the exit;                           *)
(*   SpecSnake - the Snake class alone, its methods called in any order on *)
(*               a snake built from a bounded set of bodies;               *)
(*   SpecFood  - generate_food alone, called with a bounded set of bodies, *)
(*               its draws fair.                                           *)
(***************************************************************************)
EXTENDS Integers, Sequences, FiniteSets

(* ---------------------------------------------------------------------- *)
(* Constants (python_game.py, lines 15-33)                                *)
(* ---------------------------------------------------------------------- *)

\* The window is 600 x 400 in the source; the model scales it down so that
\* the walls, the food and the snake's own body are all within reach, and so
\* that a snake can fill the grid.
WINDOW_WIDTH == 80
WINDOW_HEIGHT == 60
GRID_SIZE == 20
GRID_WIDTH == WINDOW_WIDTH \div GRID_SIZE
GRID_HEIGHT == WINDOW_HEIGHT \div GRID_SIZE

UP == <<0, -1>>
DOWN == <<0, 1>>
LEFT == <<-1, 0>>
RIGHT == <<1, 0>>

Directions == {UP, DOWN, LEFT, RIGHT}

(* ---------------------------------------------------------------------- *)
(* Bounds of the model                                                     *)
(* ---------------------------------------------------------------------- *)

\* Events handled by one pass of game_loop's "for event in pygame.event.get()".
MaxEvents == 2
\* A session of Spec stops eating at this score. A snake that fills the
\* grid has eaten GRID_WIDTH * GRID_HEIGHT - 2 times.
MaxScore == 10
\* The counter of moves since the last change_direction saturates here.
MaxStraight == 5
\* The tick counter of a session saturates here.
MaxTicks == 3
\* SpecSnake: the longest body a snake is built with, and the longest it grows to.
MaxInitLen == 3
MaxLen == 5
\* SpecSnake: the counter of consecutive moves without an eat saturates here.
MaxRun == 2

(* ---------------------------------------------------------------------- *)
(* State                                                                   *)
(* ---------------------------------------------------------------------- *)

VARIABLES
    pc,          \* where the program is: "main", "food_init", "events", "check",
                 \* "eat", "food_eat", "game_over", "exited"; "snake" in SpecSnake
    playing,     \* main: playing
    body,        \* Snake.body, head first
    direction,   \* Snake.direction
    grow,        \* Snake.grow
    food_pos,    \* game_loop: food_pos
    score,       \* game_loop: score
    nevents,     \* events handled so far by the current pass of the event loop
    ticks,       \* history: move() calls of this session, saturating at MaxTicks
    eats,        \* history: eat_food() successes of this session
    quit_signal, \* history: the quit signal handled since the last move(): "none",
                 \* "close" (pygame.QUIT), "q_prompt" (Q at the game-over prompt),
                 \* "q_running" (Q in a running session)
    play_again,  \* history: this session was started by C at the game-over prompt
                 \* and has not moved yet
    ndirs,       \* history: change_direction calls of the current pass of the
                 \* event loop
    straight,    \* history: move() calls of this session since its last
                 \* change_direction call, saturating at MaxStraight
    call,        \* SpecSnake history: the last Snake method called
    arg,         \* SpecSnake history: its argument
    ret,         \* SpecSnake history: its return value
    old,         \* SpecSnake history: the snake before that call
    eat_len,     \* SpecSnake history: len(body) at the last eat_food() success
                 \* since the last move(), 0 when there is none
    run_n,       \* SpecSnake history: consecutive move() calls without an eat
    run_len      \* SpecSnake history: len(body) before those calls

snakeVars == <<body, direction, grow>>
gameVars == <<pc, playing, food_pos, score, nevents, ticks, eats, quit_signal, play_again,
              ndirs, straight>>
histVars == <<call, arg, ret, old, eat_len, run_n, run_len>>
vars == <<pc, playing, body, direction, grow, food_pos, score, nevents, ticks,
          eats, quit_signal, play_again, ndirs, straight, call, arg, ret, old,
          eat_len, run_n, run_len>>

(* ---------------------------------------------------------------------- *)
(* The grid                                                                *)
(* ---------------------------------------------------------------------- *)

\* The cells random.randint(0, GRID_WIDTH - 1), random.randint(0, GRID_HEIGHT - 1)
\* can draw.
Grid == (0 .. GRID_WIDTH - 1) \X (0 .. GRID_HEIGHT - 1)

Range(s) == {s[i] : i \in DOMAIN s}

Min(a, b) == IF a < b THEN a ELSE b

(* ---------------------------------------------------------------------- *)
(* class Snake                                                             *)
(* ---------------------------------------------------------------------- *)

\* Snake.reset: the body it builds.
reset_body ==
    << <<GRID_WIDTH \div 2, GRID_HEIGHT \div 2>>,
       <<GRID_WIDTH \div 2 - 1, GRID_HEIGHT \div 2>>,
       <<GRID_WIDTH \div 2 - 2, GRID_HEIGHT \div 2>> >>

\* move that steps from the tail (body[-1]) instead of the head (body[0]).
move_body_from_tail(b, d, g) ==
    LET head == b[Len(b)]
        new_head == <<head[1] + d[1], head[2] + d[2]>>
        inserted == <<new_head>> \o b
    IN  IF ~g THEN SubSeq(inserted, 1, Len(inserted) - 1) ELSE inserted

\* move that pops the tail whatever the grow flag.
move_body_always_pops(b, d, g) ==
    LET head == b[1]
        new_head == <<head[1] + d[1], head[2] + d[2]>>
        inserted == <<new_head>> \o b
    IN  SubSeq(inserted, 1, Len(inserted) - 1)

\* move that never pops the tail.
move_body_keeps_tail(b, d, g) ==
    LET head == b[1]
        new_head == <<head[1] + d[1], head[2] + d[2]>>
    IN  <<new_head>> \o b

\* Snake.move: the body after the call. The new head is inserted, and the
\* tail is popped unless the grow flag is set.
move_body(b, d, g) ==
    LET head == b[1]
        new_head == <<head[1] + d[1], head[2] + d[2]>>
        inserted == <<new_head>> \o b
    IN  IF ~g THEN SubSeq(inserted, 1, Len(inserted) - 1) ELSE inserted

\* move that leaves the grow flag set.
move_grow_not_reset(g) == g

\* Snake.move: the grow flag after the call.
move_grow(g) == IF ~g THEN g ELSE FALSE

\* check_collision with the far walls one cell too far (> for >=).
check_collision_far_wall(b) ==
    LET head == b[1]
    IN  IF head[1] < 0 \/ head[1] > GRID_WIDTH \/ head[2] < 0 \/ head[2] > GRID_HEIGHT
        THEN TRUE
        ELSE IF \E i \in 2 .. Len(b) : b[i] = head
        THEN TRUE
        ELSE FALSE

\* check_collision without the test of the head against the body.
check_collision_walls_only(b) ==
    LET head == b[1]
    IN  IF head[1] < 0 \/ head[1] >= GRID_WIDTH \/ head[2] < 0 \/ head[2] >= GRID_HEIGHT
        THEN TRUE
        ELSE FALSE

\* Snake.check_collision.
check_collision(b) ==
    LET head == b[1]
    IN  IF head[1] < 0 \/ head[1] >= GRID_WIDTH \/ head[2] < 0 \/ head[2] >= GRID_HEIGHT
        THEN TRUE
        ELSE IF \E i \in 2 .. Len(b) : b[i] = head
        THEN TRUE
        ELSE FALSE

\* Snake.change_direction: the direction after the call.
change_direction(cur, new_direction) ==
    IF <<new_direction[1] * (-1), new_direction[2] * (-1)>> # cur
    THEN new_direction
    ELSE cur

\* Snake.eat_food: the return value; the grow flag is set when it is TRUE.
eat_food(b, pos) == b[1] = pos

(* ---------------------------------------------------------------------- *)
(* generate_food                                                           *)
(* ---------------------------------------------------------------------- *)

\* generate_food that looks at the head only.
food_accepted_off_head(cell, snake_body) == cell # snake_body[1]

\* One pass of generate_food's "while True": the draw food_pos is returned
\* when it is not in snake_body, and the loop draws again otherwise.
food_accepted(cell, snake_body) == cell \notin Range(snake_body)

\* A pass of the loop that draws a free cell and does not return it.
food_draw_no_return(x, y) ==
    /\ pc \in {"food_init", "food_eat"}
    /\ IF food_accepted(<<x, y>>, body)
       THEN /\ food_pos' = <<x, y>>
            /\ UNCHANGED <<score, pc>>
       ELSE UNCHANGED <<food_pos, score, pc>>
    /\ UNCHANGED <<playing, nevents, ticks, eats, quit_signal, play_again,
                   ndirs, straight>>
    /\ UNCHANGED snakeVars
    /\ UNCHANGED histVars

\* One pass of generate_food's loop, drawing (x, y). game_loop calls
\* generate_food(snake.body) at line 168 (pc "food_init", followed by
\* score = 0) and at line 204 (pc "food_eat").
food_draw(x, y) ==
    /\ pc \in {"food_init", "food_eat"}
    /\ IF food_accepted(<<x, y>>, body)
       THEN /\ food_pos' = <<x, y>>
            /\ score' = IF pc = "food_init" THEN 0 ELSE score
            /\ pc' = "events"
       ELSE UNCHANGED <<food_pos, score, pc>>
    /\ UNCHANGED <<playing, nevents, ticks, eats, quit_signal, play_again,
                   ndirs, straight>>
    /\ UNCHANGED snakeVars
    /\ UNCHANGED histVars

\* generate_food: each pass draws random.randint(0, GRID_WIDTH - 1) and
\* random.randint(0, GRID_HEIGHT - 1).
generate_food ==
    \E x \in 0 .. GRID_WIDTH - 1, y \in 0 .. GRID_HEIGHT - 1 : food_draw(x, y)

(* ---------------------------------------------------------------------- *)
(* main                                                                    *)
(* ---------------------------------------------------------------------- *)

\* main_play on the snake of the session before: no Snake() is built.
main_play_keeps_snake ==
    /\ pc = "main"
    /\ playing
    /\ pc' = "food_init"
    /\ nevents' = 0
    /\ ticks' = 0
    /\ eats' = 0
    /\ ndirs' = 0
    /\ straight' = 0
    /\ UNCHANGED <<playing, food_pos, score, quit_signal, play_again>>
    /\ UNCHANGED snakeVars
    /\ UNCHANGED histVars

\* main: "while playing: playing = game_loop()" enters game_loop, which
\* builds a Snake (Snake.__init__ calls reset) and calls generate_food.
\* The locals food_pos and score of the new call are not assigned yet: the
\* model leaves them as they were until generate_food returns.
main_play ==
    /\ pc = "main"
    /\ playing
    /\ body' = reset_body
    /\ direction' = RIGHT
    /\ grow' = FALSE
    /\ pc' = "food_init"
    /\ nevents' = 0
    /\ ticks' = 0
    /\ eats' = 0
    /\ ndirs' = 0
    /\ straight' = 0
    /\ UNCHANGED <<playing, food_pos, score, quit_signal, play_again>>
    /\ UNCHANGED histVars

\* main: the loop ends, pygame.quit(), sys.exit().
main_exit ==
    /\ pc = "main"
    /\ ~playing
    /\ pc' = "exited"
    /\ UNCHANGED <<playing, food_pos, score, nevents, ticks, eats, quit_signal, play_again,
                   ndirs, straight>>
    /\ UNCHANGED snakeVars
    /\ UNCHANGED histVars

(* ---------------------------------------------------------------------- *)
(* game_loop                                                               *)
(* ---------------------------------------------------------------------- *)

Keys == {"K_UP", "K_DOWN", "K_LEFT", "K_RIGHT", "K_c", "K_q", "K_other"}

\* The direction game_loop asks for on a key, <<>> when the key is not an arrow.
key_direction(key) ==
    IF key = "K_UP" THEN UP
    ELSE IF key = "K_DOWN" THEN DOWN
    ELSE IF key = "K_LEFT" THEN LEFT
    ELSE IF key = "K_RIGHT" THEN RIGHT
    ELSE <<>>

\* game_loop_quit without the return: the event loop goes on.
game_loop_quit_goes_on ==
    /\ pc = "events"
    /\ nevents < MaxEvents
    /\ nevents' = nevents + 1
    /\ quit_signal' = "close"
    /\ UNCHANGED <<pc, playing, food_pos, score, ticks, eats, play_again,
                   ndirs, straight>>
    /\ UNCHANGED snakeVars
    /\ UNCHANGED histVars

\* game_loop: a pygame.QUIT event: return False.
game_loop_quit ==
    /\ pc = "events"
    /\ nevents < MaxEvents
    /\ playing' = FALSE
    /\ pc' = "main"
    /\ quit_signal' = "close"
    /\ UNCHANGED <<food_pos, score, nevents, ticks, eats, play_again,
                   ndirs, straight>>
    /\ UNCHANGED snakeVars
    /\ UNCHANGED histVars

\* game_loop: a pygame.KEYDOWN event: the four arrows call change_direction,
\* every other key falls through the if/elif chain.
game_loop_keydown(key) ==
    /\ pc = "events"
    /\ nevents < MaxEvents
    /\ direction' = IF key_direction(key) # <<>>
                    THEN change_direction(direction, key_direction(key))
                    ELSE direction
    /\ nevents' = nevents + 1
    /\ quit_signal' = IF key = "K_q" THEN "q_running" ELSE quit_signal
    /\ ndirs' = IF key_direction(key) # <<>> THEN ndirs + 1 ELSE ndirs
    /\ straight' = IF direction' # direction THEN 0 ELSE straight
    /\ UNCHANGED <<pc, playing, food_pos, score, ticks, eats, play_again>>
    /\ UNCHANGED <<body, grow>>
    /\ UNCHANGED histVars

\* game_loop: the event loop is over, snake.move().
game_loop_move ==
    /\ pc = "events"
    /\ body' = move_body(body, direction, grow)
    /\ grow' = move_grow(grow)
    /\ pc' = "check"
    /\ nevents' = 0
    /\ ticks' = Min(ticks + 1, MaxTicks)
    /\ quit_signal' = "none"
    /\ play_again' = FALSE
    /\ ndirs' = 0
    /\ straight' = Min(straight + 1, MaxStraight)
    /\ UNCHANGED <<playing, direction, food_pos, score, eats>>
    /\ UNCHANGED histVars

\* game_loop_check without the return: the tick goes on to the food after a
\* collision too.
game_loop_check_falls_through ==
    /\ pc = "check"
    /\ pc' = "eat"
    /\ UNCHANGED <<playing, food_pos, score, nevents, ticks, eats, quit_signal, play_again,
                   ndirs, straight>>
    /\ UNCHANGED snakeVars
    /\ UNCHANGED histVars

\* game_loop: "if snake.check_collision():" calls game_over_screen, and the
\* tick goes on to the food otherwise.
game_loop_check ==
    /\ pc = "check"
    /\ pc' = IF check_collision(body) THEN "game_over" ELSE "eat"
    /\ UNCHANGED <<playing, food_pos, score, nevents, ticks, eats, quit_signal, play_again,
                   ndirs, straight>>
    /\ UNCHANGED snakeVars
    /\ UNCHANGED histVars

\* game_loop_eat with score += 2.
game_loop_eat_scores_two ==
    /\ pc = "eat"
    /\ IF eat_food(body, food_pos)
       THEN /\ score < MaxScore
            /\ grow' = TRUE
            /\ score' = score + 2
            /\ eats' = eats + 1
            /\ pc' = "food_eat"
       ELSE /\ pc' = "events"
            /\ UNCHANGED <<grow, score, eats>>
    /\ UNCHANGED <<playing, body, direction, food_pos, nevents, ticks, quit_signal, play_again,
                   ndirs, straight>>
    /\ UNCHANGED histVars

\* game_loop_eat that keeps the eaten food: no generate_food call.
game_loop_eat_keeps_food ==
    /\ pc = "eat"
    /\ IF eat_food(body, food_pos)
       THEN /\ score < MaxScore
            /\ grow' = TRUE
            /\ score' = score + 1
            /\ eats' = eats + 1
            /\ pc' = "events"
       ELSE /\ pc' = "events"
            /\ UNCHANGED <<grow, score, eats>>
    /\ UNCHANGED <<playing, body, direction, food_pos, nevents, ticks, quit_signal, play_again,
                   ndirs, straight>>
    /\ UNCHANGED histVars

\* game_loop_eat with an eat_food that does not set the grow flag.
game_loop_eat_no_grow ==
    /\ pc = "eat"
    /\ IF eat_food(body, food_pos)
       THEN /\ score < MaxScore
            /\ score' = score + 1
            /\ eats' = eats + 1
            /\ pc' = "food_eat"
            /\ UNCHANGED grow
       ELSE /\ pc' = "events"
            /\ UNCHANGED <<grow, score, eats>>
    /\ UNCHANGED <<playing, body, direction, food_pos, nevents, ticks, quit_signal, play_again,
                   ndirs, straight>>
    /\ UNCHANGED histVars

\* game_loop: "if snake.eat_food(food_pos):" score += 1 and generate_food is
\* called; otherwise the tick ends (drawing, clock.tick) and the loop polls
\* the events again.
game_loop_eat ==
    /\ pc = "eat"
    /\ IF eat_food(body, food_pos)
       THEN /\ score < MaxScore
            /\ grow' = TRUE
            /\ score' = score + 1
            /\ eats' = eats + 1
            /\ pc' = "food_eat"
       ELSE /\ pc' = "events"
            /\ UNCHANGED <<grow, score, eats>>
    /\ UNCHANGED <<playing, body, direction, food_pos, nevents, ticks, quit_signal, play_again,
                   ndirs, straight>>
    /\ UNCHANGED histVars

(* ---------------------------------------------------------------------- *)
(* game_over_screen                                                        *)
(* ---------------------------------------------------------------------- *)

\* game_over_screen: a pygame.QUIT event: return False; game_loop returns
\* False in turn.
game_over_quit ==
    /\ pc = "game_over"
    /\ playing' = FALSE
    /\ pc' = "main"
    /\ quit_signal' = "close"
    /\ UNCHANGED <<food_pos, score, nevents, ticks, eats, play_again,
                   ndirs, straight>>
    /\ UNCHANGED snakeVars
    /\ UNCHANGED histVars

\* game_over_keydown that plays again on every key but Q.
game_over_keydown_any_key(key) ==
    /\ pc = "game_over"
    /\ IF key = "K_q"
       THEN playing' = FALSE /\ pc' = "main" /\ quit_signal' = "q_prompt"
            /\ UNCHANGED play_again
       ELSE playing' = TRUE /\ pc' = "main" /\ play_again' = (key = "K_c")
            /\ UNCHANGED quit_signal
    /\ UNCHANGED <<food_pos, score, nevents, ticks, eats, ndirs, straight>>
    /\ UNCHANGED snakeVars
    /\ UNCHANGED histVars

\* game_over_screen: a pygame.KEYDOWN event: C returns True, Q returns False,
\* and game_loop returns the same; any other key leaves the prompt waiting.
game_over_keydown(key) ==
    /\ pc = "game_over"
    /\ IF key = "K_c"
       THEN playing' = TRUE /\ pc' = "main" /\ play_again' = TRUE
            /\ UNCHANGED quit_signal
       ELSE IF key = "K_q"
       THEN playing' = FALSE /\ pc' = "main" /\ quit_signal' = "q_prompt"
            /\ UNCHANGED play_again
       ELSE UNCHANGED <<playing, pc, quit_signal, play_again>>
    /\ UNCHANGED <<food_pos, score, nevents, ticks, eats, ndirs, straight>>
    /\ UNCHANGED snakeVars
    /\ UNCHANGED histVars

(* ---------------------------------------------------------------------- *)
(* The program                                                             *)
(* ---------------------------------------------------------------------- *)

\* The history variables of SpecSnake, which Spec leaves alone.
NoCall ==
    /\ call = "none"
    /\ arg = <<0, 0>>
    /\ ret = FALSE
    /\ old = [body |-> reset_body, direction |-> RIGHT, grow |-> FALSE]
    /\ eat_len = 0
    /\ run_n = 0
    /\ run_len = 0

\* main is entered: playing = True, no session yet. The snake and the locals
\* of game_loop do not exist yet; main_play and generate_food set them.
Init ==
    /\ pc = "main"
    /\ playing = TRUE
    /\ body = reset_body
    /\ direction = RIGHT
    /\ grow = FALSE
    /\ food_pos = <<0, 0>>
    /\ score = 0
    /\ nevents = 0
    /\ ticks = 0
    /\ eats = 0
    /\ quit_signal = "none"
    /\ play_again = FALSE
    /\ ndirs = 0
    /\ straight = 0
    /\ NoCall

Next ==
    \/ main_play
    \/ main_exit
    \/ generate_food
    \/ game_loop_quit
    \/ \E key \in Keys : game_loop_keydown(key)
    \/ game_loop_move
    \/ game_loop_check
    \/ game_loop_eat
    \/ game_over_quit
    \/ \E key \in Keys : game_over_keydown(key)

Spec == Init /\ [][Next]_vars

(* ---------------------------------------------------------------------- *)
(* The Snake class alone                                                   *)
(* ---------------------------------------------------------------------- *)

Abs(n) == IF n < 0 THEN -n ELSE n

Adjacent(a, b) == Abs(a[1] - b[1]) + Abs(a[2] - b[2]) = 1

\* The bodies a snake of SpecSnake is built with: 1 to MaxInitLen cells of the
\* grid, each next to the one before it, no cell twice.
InitBodies ==
    UNION { { b \in [1 .. n -> Grid] :
                /\ \A i \in 1 .. n - 1 : Adjacent(b[i], b[i + 1])
                /\ \A i, j \in 1 .. n : i # j => b[i] # b[j] }
            : n \in 1 .. MaxInitLen }

\* A snake as reset() or a move() leaves it: heading away from its second
\* segment, not growing. A one-cell snake heads anywhere.
InitSnake ==
    /\ pc = "snake"
    /\ playing = FALSE
    /\ food_pos = <<0, 0>>
    /\ score = 0
    /\ nevents = 0
    /\ ticks = 0
    /\ eats = 0
    /\ quit_signal = "none"
    /\ play_again = FALSE
    /\ ndirs = 0
    /\ straight = 0
    /\ body \in InitBodies
    /\ direction \in Directions
    /\ Len(body) >= 2 => direction = <<body[1][1] - body[2][1], body[1][2] - body[2][2]>>
    /\ grow = FALSE
    /\ call = "none"
    /\ arg = <<0, 0>>
    /\ ret = FALSE
    /\ old = [body |-> body, direction |-> direction, grow |-> grow]
    /\ eat_len = 0
    /\ run_n = 0
    /\ run_len = Len(body)

Snapshot == [body |-> body, direction |-> direction, grow |-> grow]

\* snake.move(), called as game_loop calls it: on a snake that has not collided.
snake_move ==
    /\ pc = "snake"
    /\ ~check_collision(body)
    /\ body' = move_body(body, direction, grow)
    /\ grow' = move_grow(grow)
    /\ call' = "move"
    /\ arg' = <<0, 0>>
    /\ ret' = FALSE
    /\ old' = Snapshot
    /\ eat_len' = 0
    /\ run_n' = IF grow THEN 0 ELSE Min(run_n + 1, MaxRun)
    /\ run_len' = IF grow THEN Len(body') ELSE run_len
    /\ UNCHANGED direction
    /\ UNCHANGED gameVars

\* snake.check_collision().
snake_check_collision ==
    /\ pc = "snake"
    /\ ret' = check_collision(body)
    /\ call' = "check_collision"
    /\ arg' = <<0, 0>>
    /\ old' = Snapshot
    /\ UNCHANGED <<eat_len, run_n, run_len>>
    /\ UNCHANGED snakeVars
    /\ UNCHANGED gameVars

\* snake.change_direction(new_direction).
snake_change_direction(new_direction) ==
    /\ pc = "snake"
    /\ direction' = change_direction(direction, new_direction)
    /\ call' = "change_direction"
    /\ arg' = new_direction
    /\ ret' = FALSE
    /\ old' = Snapshot
    /\ UNCHANGED <<eat_len, run_n, run_len>>
    /\ UNCHANGED <<body, grow>>
    /\ UNCHANGED gameVars

\* snake.eat_food(food_pos).
snake_eat_food(pos) ==
    /\ pc = "snake"
    /\ Len(body) < MaxLen
    /\ ret' = eat_food(body, pos)
    /\ grow' = IF eat_food(body, pos) THEN TRUE ELSE grow
    /\ call' = "eat_food"
    /\ arg' = pos
    /\ old' = Snapshot
    /\ eat_len' = IF eat_food(body, pos) THEN Len(body) ELSE eat_len
    /\ run_n' = IF eat_food(body, pos) THEN 0 ELSE run_n
    /\ run_len' = IF eat_food(body, pos) THEN Len(body) ELSE run_len
    /\ UNCHANGED <<body, direction>>
    /\ UNCHANGED gameVars

NextSnake ==
    \/ snake_move
    \/ snake_check_collision
    \/ \E d \in Directions : snake_change_direction(d)
    \/ \E pos \in Grid : snake_eat_food(pos)

SpecSnake == InitSnake /\ [][NextSnake]_vars

(* ---------------------------------------------------------------------- *)
(* generate_food alone                                                     *)
(* ---------------------------------------------------------------------- *)

\* The k-th cell of the path that sweeps the grid row by row, left to right
\* on even rows and right to left on odd ones.
Serpentine(k) ==
    LET y == (k - 1) \div GRID_WIDTH
        c == (k - 1) % GRID_WIDTH
    IN  <<IF y % 2 = 0 THEN c ELSE GRID_WIDTH - 1 - c, y>>

\* The bodies generate_food is called with in SpecFood: the short bodies of
\* SpecSnake, and a snake lying along that path, of every length up to the
\* whole grid.
FoodBodies ==
    InitBodies \cup
    { [i \in 1 .. n |-> Serpentine(i)] : n \in 1 .. GRID_WIDTH * GRID_HEIGHT }

\* game_loop is at line 204: the snake has eaten and generate_food is called.
InitFood ==
    /\ body \in FoodBodies
    /\ pc = "food_eat"
    /\ playing = TRUE
    /\ food_pos = body[1]
    /\ score = 1
    /\ nevents = 0
    /\ ticks = 1
    /\ eats = 1
    /\ quit_signal = "none"
    /\ play_again = FALSE
    /\ ndirs = 0
    /\ straight = 1
    /\ direction = RIGHT
    /\ grow = TRUE
    /\ call = "none"
    /\ arg = <<0, 0>>
    /\ ret = FALSE
    /\ old = [body |-> body, direction |-> direction, grow |-> FALSE]
    /\ eat_len = 0
    /\ run_n = 0
    /\ run_len = 0

\* The draws are fair: a cell whose draw would end the loop is drawn sooner
\* or later.
FairDraws ==
    \A x \in 0 .. GRID_WIDTH - 1, y \in 0 .. GRID_HEIGHT - 1 : WF_vars(food_draw(x, y))

SpecFood == InitFood /\ [][generate_food]_vars /\ FairDraws

(* ---------------------------------------------------------------------- *)
(* Properties                                                              *)
(* ---------------------------------------------------------------------- *)

\* The head of body b is on one of its other segments.
HeadOnSegment(b) == Len(b) >= 2 /\ b[1] \in Range(Tail(b))

\* The head of body b is off the grid or on one of its other segments.
HeadHit(b) == b[1] \notin Grid \/ HeadOnSegment(b)

\* C1: a tick of a running session is move(), then check_collision(), then
\* eat_food(): the check is reached by a move only, the eat check by a check
\* that found no collision only, and a check that finds a collision ends the
\* session in that tick; up to there the tick changes neither the score nor
\* the food.
C1_TickOrder ==
    [][ /\ pc' = "check" /\ pc # "check"
           => pc = "events" /\ body'[1] = <<body[1][1] + direction[1],
                                            body[1][2] + direction[2]>>
        /\ pc' = "eat" /\ pc # "eat" => pc = "check" /\ ~HeadHit(body)
        /\ pc' = "food_eat" /\ pc # "food_eat" => pc = "eat"
        /\ pc = "check" /\ HeadHit(body)
           => pc' = "game_over" /\ score' = score /\ food_pos' = food_pos
        /\ pc \in {"events", "check", "game_over"}
           => score' = score /\ food_pos' = food_pos
      ]_vars

\* C1 witness: a session ended by the snake running into itself.
C1_Witness == pc = "game_over" /\ HeadOnSegment(body) /\ score >= 2

\* C2: check_collision() returns true exactly when the head is outside
\* [0, GRID_WIDTH) x [0, GRID_HEIGHT) or equals a segment of body[1:], and it
\* changes nothing.
C2_CheckCollision ==
    call = "check_collision"
    => /\ ret <=> \/ ~(0 <= body[1][1] /\ body[1][1] < GRID_WIDTH)
                  \/ ~(0 <= body[1][2] /\ body[1][2] < GRID_HEIGHT)
                  \/ \E i \in DOMAIN body : i # 1 /\ body[i] = body[1]
       /\ Snapshot = old

\* C2 witness: body [(0,0)] heading Left has moved to x = -1 and
\* check_collision() has returned true.
C2_Witness ==
    /\ call = "check_collision"
    /\ ret
    /\ body = << <<-1, 0>> >>
    /\ direction = LEFT

Opposite(d) == <<-d[1], -d[2]>>

C3_SetsDirectionOnly ==
    [][ call' = "change_direction"
        => /\ direction' = IF arg' = Opposite(direction) THEN direction ELSE arg'
           /\ body' = body
           /\ grow' = grow
      ]_vars

\* C4: eat_food(pos) succeeds exactly when the head equals pos and then sets
\* the grow flag; the next move() leaves the body one segment longer than it
\* was at the eat, the new head in front of every old segment, and resets the
\* grow flag; a move() with no eat before it does not lengthen the body.
C4_GrowsByOne ==
    [][ /\ call' = "eat_food"
           => /\ ret' <=> (arg' = body[1])
              /\ ret' => grow' /\ Len(body') = Len(body)
        /\ call' = "move" /\ eat_len > 0
           => /\ Len(body') = eat_len + 1
              /\ Tail(body') = body
              /\ grow' = FALSE
        /\ call' = "move" /\ eat_len = 0 => Len(body') <= Len(body)
      ]_vars

\* C4 witness: a move() after an eat_food() success has lengthened the body.
C4_Witness ==
    /\ call = "move"
    /\ old.grow
    /\ Len(body) = Len(old.body) + 1
    /\ ~grow

\* C5: after any number of consecutive move() calls with no eat_food()
\* success, whatever change_direction calls come in between, the body is as
\* long as it was before them.
C5_ConstantLength == run_n > 0 => Len(body) = run_len

\* C5 witness: two moves without an eat, the second after a turn.
C5_Witness ==
    /\ run_n >= 2
    /\ call = "move"
    /\ Len(body) >= 3
    /\ body[1][1] # body[3][1]
    /\ body[1][2] # body[3][2]

\* The pcs of a session whose locals are assigned.
SessionPcs == {"events", "check", "eat", "food_eat", "game_over"}

\* The first tick of a session has ended; it moved the head Right from the
\* reset position onto the food.
FirstTickAte ==
    /\ pc = "events"
    /\ nevents = 0
    /\ ticks = 1
    /\ eats = 1
    /\ body[1] = <<GRID_WIDTH \div 2 + 1, GRID_HEIGHT \div 2>>

\* C6 as stated: at the end of the tick in which the head of a fresh snake
\* moves Right onto the food, the score is 1, the body has 4 segments and
\* the new food is on none of them.
C6_Original ==
    FirstTickAte
    => /\ score = 1
       /\ Len(body) = 4
       /\ food_pos \in Grid
       /\ food_pos \notin Range(body)

\* C6 amended: at the end of that tick the score is 1, the grow flag is set,
\* the body still has its 3 segments and the new food is on none of them;
\* the body has 4 segments after the move() of the next tick.
C6_Amended ==
    /\ FirstTickAte
       => /\ score = 1
          /\ grow
          /\ body = << <<GRID_WIDTH \div 2 + 1, GRID_HEIGHT \div 2>>,
                       <<GRID_WIDTH \div 2, GRID_HEIGHT \div 2>>,
                       <<GRID_WIDTH \div 2 - 1, GRID_HEIGHT \div 2>> >>
          /\ food_pos \in Grid
          /\ food_pos \notin Range(body)
    /\ ( /\ pc = "check"
         /\ ticks = 2
         /\ eats = 1
         /\ body[2] = <<GRID_WIDTH \div 2 + 1, GRID_HEIGHT \div 2>> )
       => /\ score = 1
          /\ Len(body) = 4
          /\ ~grow

\* C6 witness: the second move() of a session whose first tick ate.
C6_Witness ==
    /\ pc = "check"
    /\ ticks = 2
    /\ eats = 1
    /\ body[2] = <<GRID_WIDTH \div 2 + 1, GRID_HEIGHT \div 2>>

\* C7: the cell generate_food(occupied) returns is inside the grid,
\* 0 <= x < GRID_WIDTH and 0 <= y < GRID_HEIGHT, and is no cell of occupied.
C7_FoodFree ==
    [][ (pc \in {"food_init", "food_eat"} /\ pc' = "events")
        => /\ 0 <= food_pos'[1] /\ food_pos'[1] < GRID_WIDTH
           /\ 0 <= food_pos'[2] /\ food_pos'[2] < GRID_HEIGHT
           /\ (\A i \in DOMAIN body : food_pos' # body[i])
      ]_vars

\* C7 witness: generate_food has returned for a body of 4 segments.
C7_Witness == pc = "events" /\ nevents = 0 /\ grow /\ Len(body) = 4

\* C8: the score of a session starts at 0, is never negative, equals the
\* number of eat_food() successes of the session, rises by exactly 1 in the
\* tick of a success and is left alone by every other step of a session.
C8_Score ==
    /\ [](pc \in SessionPcs => score >= 0 /\ score = eats)
    /\ [](pc = "events" /\ ticks = 0 => score = 0)
    /\ [][ (pc \in SessionPcs)
           => score' = (IF pc = "eat" /\ body[1] = food_pos THEN score + 1 ELSE score)
         ]_vars

\* C8 witness: a session past MaxTicks ticks, two of which ate.
C8_Witness == pc = "events" /\ ticks = MaxTicks /\ score = 2 /\ ~grow

\* C9: a session started by C at the game-over prompt starts with score 0,
\* the 3-segment body [(W/2,H/2),(W/2-1,H/2),(W/2-2,H/2)], direction Right,
\* the grow flag false and a food off the body.
C9_FreshSession ==
    pc = "events" /\ play_again /\ nevents = 0
    => /\ score = 0
       /\ body = << <<GRID_WIDTH \div 2, GRID_HEIGHT \div 2>>,
                    <<GRID_WIDTH \div 2 - 1, GRID_HEIGHT \div 2>>,
                    <<GRID_WIDTH \div 2 - 2, GRID_HEIGHT \div 2>> >>
       /\ direction = <<1, 0>>
       /\ grow = FALSE
       /\ food_pos \in Grid
       /\ food_pos \notin Range(body)

\* C9 witness: a session started by C, about to handle its first event.
C9_Witness == pc = "events" /\ play_again /\ nevents = 0

\* A step that is a move(), and a step that starts a session.
MoveStep == pc = "events" /\ pc' = "check"
SessionStartStep == pc = "main" /\ pc' = "food_init"

\* C10 as stated: after a quit signal, window close or the Q key, in a
\* running session or at the game-over prompt, no move() is performed and no
\* session is started.
C10_Original ==
    [][ quit_signal # "none" => ~MoveStep /\ ~SessionStartStep ]_vars

\* C10 amended: after a window close, in a running session or at the
\* game-over prompt, or the Q key at the game-over prompt, the only step the
\* program takes is main's exit: no move(), no new session. The Q key in a
\* running session is ignored: the event loop goes on and nothing of the
\* session changes.
C10_Amended ==
    [][ /\ quit_signal \in {"close", "q_prompt"}
           => /\ pc = "main" /\ ~playing /\ pc' = "exited"
              /\ ~MoveStep /\ ~SessionStartStep
        /\ quit_signal' \in {"close", "q_prompt"} /\ quit_signal' # quit_signal
           => pc' = "main" /\ ~playing'
        /\ quit_signal' = "q_running" /\ quit_signal # "q_running"
           => /\ pc' = "events"
              /\ UNCHANGED <<body, direction, grow, score, food_pos, playing>>
      ]_vars

\* C10 witness: the program has exited on a window close in a running session.
C10_Witness ==
    /\ pc = "exited"
    /\ quit_signal = "close"
    /\ ticks > 0
    /\ ~HeadHit(body)

\* C11: once check_collision() has returned true the session is over: at
\* the game-over prompt nothing moves, eats, scores or replaces the food; the
\* prompt is left by C (play again), by Q or by a window close (quit) only,
\* and any other input leaves the state as it is; main then starts a new
\* session on a new snake or exits.
C11_Absorbing ==
    [][ /\ pc = "check" /\ HeadHit(body) => pc' = "game_over"
        /\ pc = "game_over"
           => /\ UNCHANGED <<body, direction, grow, score, food_pos, ticks, eats>>
              /\ pc' = "main"
              /\ \/ playing' /\ play_again' /\ quit_signal' = "none"
                 \/ ~playing' /\ ~play_again' /\ quit_signal' \in {"close", "q_prompt"}
        /\ pc = "main"
           => /\ UNCHANGED <<score, food_pos>>
              /\ \/ playing /\ pc' = "food_init" /\ body' = reset_body
                 \/ ~playing /\ pc' = "exited" /\ UNCHANGED <<body, direction, grow>>
      ]_vars

\* C11 witness: a session that scored has collided, and C was pressed at its
\* prompt.
C11_Witness == pc = "main" /\ play_again /\ HeadHit(body) /\ score >= 1

\* C12: in each tick at most one directional request is applied to the
\* snake before move(), however many arrow-key events the pass handles.
C12_OneRequestPerTick == pc = "events" => ndirs <= 1

\* C13: between operations the body has at least 1 segment, and each two
\* consecutive segments differ by exactly 1 in one coordinate and by 0 in the
\* other; the move that ends a session is no exception.
C13_Contiguous ==
    /\ Len(body) >= 1
    /\ \A i \in 1 .. Len(body) - 1 :
          \/ body[i][1] = body[i + 1][1] /\ body[i][2] - body[i + 1][2] \in {-1, 1}
          \/ body[i][2] = body[i + 1][2] /\ body[i][1] - body[i + 1][1] \in {-1, 1}

\* C13 witness: a snake of 4 or more segments has left the grid.
C13_Witness == pc = "game_over" /\ body[1] \notin Grid /\ Len(body) >= 4

\* C14: with fair draws generate_food(occupied) returns whenever a cell of
\* the grid is not in occupied.
C14_Terminates ==
    (pc \in {"food_init", "food_eat"} /\ \E c \in Grid : c \notin Range(body))
    ~> (pc = "events" /\ food_pos \notin Range(body))

\* C14 witness: generate_food has returned the one cell a snake left free.
C14_Witness ==
    /\ pc = "events"
    /\ Len(body) = GRID_WIDTH * GRID_HEIGHT - 1
    /\ food_pos \notin Range(body)

\* The direction of the last move(): the step from the second cell of the
\* body to its head.
LastMove(b) == <<b[1][1] - b[2][1], b[1][2] - b[2][2]>>

\* C15: in a session, the direction a move() uses is never the exact
\* opposite of the direction the preceding move() used.
C15_NoReversal ==
    [][ (MoveStep /\ ticks > 0) => direction # Opposite(LastMove(body)) ]_vars

\* The last call was a move() that put the head of a snake of three cells or
\* more into the cell the tail occupied immediately before it.
MovedOntoOldTail ==
    call = "move" /\ Len(old.body) >= 3 /\ body[1] = old.body[Len(old.body)]

\* C16 as stated: after a move of the head into the cell the tail occupied
\* immediately before the move, check_collision() returns true, growing or
\* not.
C16_Original ==
    [][ (MovedOntoOldTail /\ call' = "check_collision") => ret' ]_vars

\* C16 amended: after such a move check_collision() returns true exactly when
\* the snake was growing, the only case in which move() has kept the tail;
\* when it was not growing the tail is popped before the check and the move
\* is no collision.
C16_Amended ==
    [][ (MovedOntoOldTail /\ call' = "check_collision") => (ret' <=> old.grow) ]_vars

\* C16 witness: a snake of four cells or more, not growing, has moved its
\* head into the cell its tail has just left, and check_collision finds
\* nothing.
C16_Witness ==
    /\ MovedOntoOldTail
    /\ ~old.grow
    /\ Len(body) >= 4
    /\ ~check_collision(body)

\* C17: at the start of a session and at the end of every tick that does not
\* end it, the food is a cell of the grid and no cell of the body, however
\* many moves were made since the food was generated.
C17_FoodOffBody ==
    pc = "events" => food_pos \in Grid /\ food_pos \notin Range(body)

\* C17 witness: a tick has ended with the food where it was generated after
\* the second eat of the session; the snake has grown and moved since.
C17_Witness ==
    /\ pc = "events"
    /\ eats = 2
    /\ ~grow
    /\ Len(body) = 5

\* C18: after reset and at the end of every tick that does not end the
\* session, len(body) + (1 if grow) = 3 + score; the body never has fewer
\* than 3 segments, and no step of a session makes it shorter.
C18_Length ==
    /\ [](pc = "events" => Len(body) + (IF grow THEN 1 ELSE 0) = 3 + score)
    /\ [](Len(body) >= 3)
    /\ [][ (pc # "main") => (Len(body') >= Len(body)) ]_vars

\* C18 witness: a tick has ended with a body of 5 segments and another one
\* pending.
C18_Witness == pc = "events" /\ Len(body) = 5 /\ grow /\ score = 3

\* C19: in every state in which eat_food() has succeeded a cell of the grid
\* is not occupied by the body, so that the generate_food(snake.body) call
\* of that tick can return.
C19_FreeCell ==
    pc = "food_eat" => \E c \in Grid : c \notin Range(body)

\* The moves a snake can make along its heading before it leaves the grid:
\* GRID_WIDTH when heading Left or Right, GRID_HEIGHT when heading Up or Down.
StraightLimit == IF direction[1] # 0 THEN GRID_WIDTH ELSE GRID_HEIGHT

====
